---- MODULE Spec2Model ----
(***************************************************************************)
(* Round controller of "Guess the Phrase" (app.js, embedded in README.md;  *)
(* movement.js holds a second copy of the input handlers).                 *)
(*                                                                         *)
(* The program is single threaded: every DOM event handler, setTimeout     *)
(* callback and setInterval callback runs to completion.  One action of    *)
(* the model is one such handler or callback, with every function it       *)
(* calls.  Handlers are written as operators from a "world" record (all    *)
(* the variables) to the world after the call, so that nested calls        *)
(* (advance -> endRound -> stopTimer ...) compose as they do in the code.  *)
(*                                                                         *)
(* Time: `now` is Date.now() in milliseconds.  Timers fire exactly when    *)
(* due, in order of due time; the clock moves from one due time to the     *)
(* next, and user input may arrive at any of these instants.  The code     *)
(* only uses differences of clock readings, so a state is described in the *)
(* time frame in which the present reading is Epoch: when d ms pass, every *)
(* stored reading (due times, startedAt, ...) moves d ms into the past.    *)
(***************************************************************************)
EXTENDS Integers, Sequences, FiniteSets, TLC

VARIABLES
  State,      \* the State object (README.md 169-199)
  dom,        \* the DOM elements the handlers read and write
  storage,    \* localStorage[LS_KEY]: the saved settings
  timeouts,   \* pending setTimeout callbacks, in the order they were scheduled
  intervals,  \* live setInterval callbacks (the round timer)
  now,        \* Date.now(), ms
  Swipe,      \* the Swipe object of the swipe detector (README.md 430)
  hist        \* history, not program state:
              \*   nexts   the next actions counted in this round
              \*   calls   the calls of advance made in this round while running
              \*   ends    the reasons of the calls of endRound made in this round
              \*   inputs  the user input events so far
              \*   call    the action of a direct call of advance made by the last step
              \*   live    whether the run follows the round timer to its end
              \*   samples   the orientation events so far
              \*   emit      the action the orientation event of the last step
              \*             passed to advance
              \*   tiltAt    when the tilt recognizer last emitted in this round
              \*   latch     "fresh": the recognizer has not emitted in this round,
              \*             "fired": it has, and no sample in the neutral zone
              \*             was processed since, "returned": one was
              \*   last      the sample the listener processed in the last step
              \*   missed    the timer ticks the browser has dropped so far
              \*   looped    the round started last began with looping enabled
              \*   seq       how far the samples of this round follow
              \*             TiltSequence: k samples matched, the first one
              \*             was base, the last one arrived at the reading at

vars == <<State, dom, storage, timeouts, intervals, now, Swipe, hist>>

----------------------------------------------------------------------------
(* Bounds of the model *)

MaxDeck == 2        \* most phrases in the input list
MaxInputs == 5      \* most user input events (clicks, taps, edits) in one run
MaxLiveInputs == 3  \* the same, in the runs that follow the round timer to its end
SwipeStep == 50     \* ms between two clock readings while a gesture is under way
Scale == 100        \* angles are held in 1/Scale degrees
MaxSamples == 4     \* most orientation events in one run
MaxMissed == 5      \* most timer ticks the browser drops in one run
MaxRequests == 2    \* most motion-permission requests awaiting their answer
TiltHorizon == 2300 \* no orientation event once a round timer has run this many ms
Epoch == 1000       \* the present reading of Date.now()
Horizon == 700      \* no user input once a round timer has run this many ms; the
                    \* runs that do not follow the timer to its end stop the clock there

----------------------------------------------------------------------------
(* Program constants *)

FEEDBACK_DELAY == 420     \* const delay = 420 in advance
END_DELAY == 250          \* setTimeout(..., 250) in endRound
TIMER_POLL == 250         \* setInterval(..., 250) in startTimer
TIMER_MIN == 10           \* clamp(timer, 10, 600)
TIMER_MAX == 600
TILT_minIntervalMs == 700 \* TILT.minIntervalMs
TILT_forwardTriggerDelta == 18    \* degrees
TILT_backwardTriggerDelta == -18
TILT_neutralZoneAbs == 10
TILT_baselineSlack == 4           \* TILT.neutralZoneAbs + 4 in calibrateBaseline
TILT_baselineSmoothing == 12      \* 0.12, in hundredths
SWIPE_THRESHOLD_PX == 42  \* least |dx| of a swipe
SWIPE_MAX_OFF_AXIS == 80  \* most |dy| of a swipe
SWIPE_MAX_MS == 800       \* most duration of a swipe

null == 0                 \* State.timerId = null (interval ids are positive)

Actions == {"got", "pass", "next"}

TimeIsUp == "Time is up"
EndedEarly == "Ended early"
ReachedEnd == "Reached the end of the list"
Reasons == {TimeIsUp, EndedEarly, ReachedEnd}

Max(a, b) == IF a >= b THEN a ELSE b
Min(a, b) == IF a <= b THEN a ELSE b

\* clamp(n, min, max), README.md 728-730
clamp(n, lo, hi) == Max(lo, Min(hi, n))

\* an orientation event without a numeric beta; no run of TiltSequence yet
NoSample == [numeric |-> FALSE, beta |-> 0]
NoSequence == [k |-> 0, base |-> 0, at |-> 0]

----------------------------------------------------------------------------
(* The world record *)

World == [State |-> State, dom |-> dom, storage |-> storage,
          timeouts |-> timeouts, intervals |-> intervals, now |-> now,
          Swipe |-> Swipe, hist |-> hist]

\* the step ends in world w; call: the action of a direct call of advance
Goes(w, call) ==
  /\ State' = w.State
  /\ dom' = w.dom
  /\ storage' = w.storage
  /\ timeouts' = w.timeouts
  /\ intervals' = w.intervals
  /\ now' = w.now
  /\ Swipe' = w.Swipe
  /\ hist' = [w.hist EXCEPT !.call = call]

Becomes(w) == Goes(w, "")

----------------------------------------------------------------------------
(* Settings persistence: saveSettings merges the partial record into the   *)
(* stored one (README.md 128-136).                                         *)

saveSettings(w, partial) == [w EXCEPT !.storage = partial @@ w.storage]

\* parsePhrases, README.md 143-157.  A text is its sequence of lines: line 0
\* is a blank line or a '#' line, line i >= 1 holds phrase i.
parsePhrases(text) == SelectSeq(text, LAMBDA l : l # 0)

\* the text with one '#' line and the phrases 1..n
PhraseText(n) == <<0>> \o [i \in 1..n |-> i]

----------------------------------------------------------------------------
(* Deck *)

\* fisherYatesShuffle, README.md 160-166.  rnd[i] is the value of
\* Math.floor(Math.random() * (i + 1)) drawn in iteration i (0-based i).
RECURSIVE fyLoop(_, _, _)
fyLoop(arr, i, rnd) ==
  IF i <= 0 THEN arr
  ELSE LET j == rnd[i]
           swapped == [arr EXCEPT ![i + 1] = arr[j + 1], ![j + 1] = arr[i + 1]]
       IN fyLoop(swapped, i - 1, rnd)

fisherYatesShuffle(arr, rnd) == fyLoop(arr, Len(arr) - 1, rnd)

\* The draws of Math.random a shuffle of n items may see.
RandomDraws(n) == { r \in [1..(n - 1) -> 0..(n - 1)] : \A i \in 1..(n - 1) : r[i] <= i }

\* buildDeck, README.md 265-269
buildDeck(w, phrases, rnd) ==
  IF w.State.shuffleOnStart THEN fisherYatesShuffle(phrases, rnd) ELSE phrases

\* const current = State.deck[State.index]; if (!current) ...
HasCurrent_Always(S) == TRUE

HasCurrent(S) == S.index < Len(S.deck)

----------------------------------------------------------------------------
(* Tilt listener *)

\* isIOSNeedsMotionPermission(), README.md 584-589: a property of the platform
isIOSNeedsMotionPermission(w) == w.dom.needsMotionPermission

\* tiltStatusText + setTiltStatus, README.md 606-615
setTiltStatus(w, extra) ==
  IF w.State.mode # "running" THEN w
  ELSE [w EXCEPT !.dom.tiltStatus =
          <<IF w.State.tiltEnabled THEN "Tilt: On" ELSE "Tilt: Off", extra>>]

\* README.md 621-625
attachTiltListener(w) ==
  IF w.State.tiltListenerAttached THEN w
  ELSE [w EXCEPT !.State.tiltListenerAttached = TRUE]

\* README.md 627-631
disableTiltListener(w) ==
  IF ~w.State.tiltListenerAttached THEN w
  ELSE [w EXCEPT !.State.tiltListenerAttached = FALSE]

\* README.md 633-650
maybeEnableTiltDuringGame_NoGate(w) ==
  IF ~w.State.tiltEnabled
  THEN setTiltStatus(disableTiltListener([w EXCEPT !.dom.motionPermBtnHidden = TRUE]), "Off")
  ELSE setTiltStatus(attachTiltListener([w EXCEPT !.dom.motionPermBtnHidden = TRUE]), "Ready")

maybeEnableTiltDuringGame(w) ==
  IF ~w.State.tiltEnabled
  THEN setTiltStatus(disableTiltListener([w EXCEPT !.dom.motionPermBtnHidden = TRUE]), "Off")
  ELSE IF isIOSNeedsMotionPermission(w) /\ ~w.State.tiltPermissionGranted
  THEN setTiltStatus([w EXCEPT !.dom.motionPermBtnHidden = FALSE], "Needs permission")
  ELSE setTiltStatus(attachTiltListener([w EXCEPT !.dom.motionPermBtnHidden = TRUE]), "Ready")

----------------------------------------------------------------------------
(* Screens and results *)

\* setScreen, README.md 213-232
setScreen(w, mode) ==
  [w EXCEPT !.State.mode = mode,
            !.dom.tiltStatus =
               IF mode = "running"
               THEN <<IF w.State.tiltEnabled THEN "Tilt: On" ELSE "Tilt: Off",
                      IF w.State.tiltEnabled THEN "Ready" ELSE "Off">>
               ELSE <<"", "">>]

\* renderResults, README.md 378-387: the results snapshot shown to the player
renderResults(w, reason) ==
  [w EXCEPT !.dom.results =
     [statTotal |-> w.State.shown, statGot |-> w.State.got,
      statPass |-> w.State.pass, total |-> Len(w.State.deck),
      reason |-> reason]]

----------------------------------------------------------------------------
(* Timer *)

\* stopTimer, README.md 420-425
stopTimer(w) ==
  IF w.State.timerId # null
  THEN [w EXCEPT !.intervals = { iv \in w.intervals : iv.id # w.State.timerId },
                 !.State.timerId = null]
  ELSE w

FreshTimerId(w) ==
  CHOOSE i \in 1..(Cardinality(w.intervals) + 1) :
     \A iv \in w.intervals : iv.id # i

\* startTimer, README.md 405-418 (the callback is timerCallback below)
startTimer(w) ==
  LET w1 == stopTimer(w)
      id == FreshTimerId(w1)
  IN [w1 EXCEPT !.intervals = @ \cup {[id |-> id, startedAt |-> w1.now,
                                        due |-> w1.now + TIMER_POLL]},
                !.State.timerId = id]

----------------------------------------------------------------------------
(* Round *)

\* endRound, README.md 389-400.  The timeout it schedules is endRoundCallback.
\* History kept with a timeout, not read by the code:
\*   called  mode, index and counters at the moment of the endRound call
\*   again   endRound had been called before in the round
\*   stale   a later startRound has run since
Called(w) == [mode |-> w.State.mode, index |-> w.State.index,
              shown |-> w.State.shown, got |-> w.State.got, pass |-> w.State.pass]
NoCall == [mode |-> "", index |-> 0, shown |-> 0, got |-> 0, pass |-> 0]

endRound(w, reason) ==
  LET w1 == disableTiltListener(stopTimer(w))
  IN [w1 EXCEPT !.timeouts =
        Append(@, [kind |-> "endRound", due |-> w1.now + END_DELAY,
                   reason |-> reason, atEnd |-> FALSE,
                   called |-> Called(w), again |-> w.hist.ends # {},
                   stale |-> FALSE]),
                !.hist.ends = @ \cup {reason}]

\* the arrow function of README.md 395-399
endRoundCallback(w, t) ==
  renderResults(setScreen(w, "finished"), t.reason)

\* advance, the counters: README.md 301-311
countAction_NextKeepsIndex(S, action) ==
  [S EXCEPT !.shown = @ + 1,
            !.got = IF action = "got" THEN @ + 1 ELSE @,
            !.pass = IF action = "pass" THEN @ + 1 ELSE @,
            !.index = IF action = "next" THEN @ ELSE @ + 1]

countAction_NextNotShown(S, action) ==
  [S EXCEPT !.shown = IF action = "next" THEN @ ELSE @ + 1,
            !.got = IF action = "got" THEN @ + 1 ELSE @,
            !.pass = IF action = "pass" THEN @ + 1 ELSE @,
            !.index = @ + 1]

countAction(S, action) ==
  [S EXCEPT !.shown = @ + 1,
            !.got = IF action = "got" THEN @ + 1 ELSE @,
            !.pass = IF action = "pass" THEN @ + 1 ELSE @,
            !.index = @ + 1]

\* advance past its mode guard, README.md 290-331.  The timeout it schedules
\* is advanceCallback.
advanceRunning(w, action) ==
  IF ~HasCurrent(w.State)
  THEN IF w.State.loopWhenFinished /\ Len(w.State.deck) > 0
       THEN [w EXCEPT !.State.index = 0, !.hist.calls = @ + 1]
       ELSE endRound([w EXCEPT !.hist.calls = @ + 1], ReachedEnd)
  ELSE LET S1 == countAction(w.State, action)
           atEnd == S1.index >= Len(S1.deck)
       IN [w EXCEPT !.State = S1,
                    !.hist.nexts = IF action = "next" THEN @ + 1 ELSE @,
                    !.hist.calls = @ + 1,
                    !.timeouts =
                       Append(@, [kind |-> "advance", due |-> w.now + FEEDBACK_DELAY,
                                  reason |-> "", atEnd |-> atEnd,
                                  called |-> NoCall, again |-> FALSE,
                                  stale |-> FALSE])]

\* advance, README.md 287-331
advance_NoModeGuard(w, action) == advanceRunning(w, action)

advance(w, action) ==
  IF w.State.mode # "running" THEN w ELSE advanceRunning(w, action)

\* the arrow function of README.md 317-330
advanceCallback_NoEnd(w, t) ==
  IF t.atEnd /\ w.State.loopWhenFinished /\ Len(w.State.deck) > 0
  THEN [w EXCEPT !.State.index = 0]
  ELSE w

advanceCallback_NoLoop(w, t) ==
  IF t.atEnd THEN endRound(w, ReachedEnd) ELSE w

advanceCallback(w, t) ==
  IF t.atEnd
  THEN IF w.State.loopWhenFinished /\ Len(w.State.deck) > 0
       THEN [w EXCEPT !.State.index = 0]
       ELSE endRound(w, ReachedEnd)
  ELSE w

\* startRound past its check of the phrase list, README.md 340-375
startRoundValid(w, rnd) ==
  LET phrases == parsePhrases(w.dom.phrasesInput)
      w1 == saveSettings(w, [phrasesText |-> w.dom.phrasesInput,
                             timerSeconds |-> w.State.timerSeconds,
                             shuffleOnStart |-> w.State.shuffleOnStart,
                             loopWhenFinished |-> w.State.loopWhenFinished,
                             tiltEnabled |-> w.State.tiltEnabled])
      w2 == [w1 EXCEPT
               !.State.phrasesOriginal = phrases,
               !.State.deck = buildDeck(w1, phrases, rnd),
               !.State.index = 0,
               !.State.shown = 0,
               !.State.got = 0,
               !.State.pass = 0,
               !.State.timeLeft = w1.State.timerSeconds,
               !.State.tiltLastActionAt = 0,
               !.State.tiltArmed = TRUE,
               !.State.tiltHasBaseline = FALSE,
               !.hist.nexts = 0,
               !.hist.calls = 0,
               !.hist.ends = {},
               !.hist.tiltAt = 0,
               !.hist.latch = "fresh",
               !.hist.last = NoSample,
               !.hist.seq = NoSequence,
               !.hist.looped = w1.State.loopWhenFinished,
               !.timeouts = [i \in DOMAIN @ |-> [@[i] EXCEPT !.stale = TRUE]]]
  IN startTimer(maybeEnableTiltDuringGame(setScreen(w2, "running")))

\* startRound, README.md 333-376
startRound_NoValidation(w, rnd) == startRoundValid(w, rnd)

\* startRound without README.md 359-362: the tilt values are left as they are
startRound_KeepsTilt(w, rnd) ==
  IF Len(parsePhrases(w.dom.phrasesInput)) = 0
  THEN [w EXCEPT !.dom.alert = "Please add at least one phrase to start."]
  ELSE [startRoundValid(w, rnd) EXCEPT
          !.State.tiltLastActionAt = w.State.tiltLastActionAt,
          !.State.tiltArmed = w.State.tiltArmed,
          !.State.tiltHasBaseline = w.State.tiltHasBaseline]

startRound(w, rnd) ==
  IF Len(parsePhrases(w.dom.phrasesInput)) = 0
  THEN [w EXCEPT !.dom.alert = "Please add at least one phrase to start."]
  ELSE startRoundValid(w, rnd)

\* the setInterval callback of README.md 409-417
timerCallback_KeepsTicking(w, iv) ==
  LET elapsed == (w.now - iv.startedAt) \div 1000
      w1 == [w EXCEPT !.State.timeLeft = Max(0, w.State.timerSeconds - elapsed)]
  IN IF w1.State.timeLeft <= 0
     THEN [endRound(w1, TimeIsUp) EXCEPT !.intervals = w1.intervals,
                                         !.State.timerId = w1.State.timerId]
     ELSE w1

\* a timer that counts the ticks that fall on a whole second
timerCallback_CountsTicks(w, iv) ==
  LET w1 == [w EXCEPT !.State.timeLeft =
                IF (w.now - iv.startedAt) % 1000 = 0 THEN Max(0, @ - 1) ELSE @]
  IN IF w1.State.timeLeft <= 0 THEN endRound(w1, TimeIsUp) ELSE w1

timerCallback(w, iv) ==
  LET elapsed == (w.now - iv.startedAt) \div 1000
      w1 == [w EXCEPT !.State.timeLeft = Max(0, w.State.timerSeconds - elapsed)]
  IN IF w1.State.timeLeft <= 0 THEN endRound(w1, TimeIsUp) ELSE w1

\* syncOptionsFromUI, README.md 732-741
syncOptionsFromUI(w) ==
  [w EXCEPT !.State.timerSeconds = clamp(w.dom.timerSecondsInput, TIMER_MIN, TIMER_MAX),
            !.dom.timerSecondsInput = clamp(w.dom.timerSecondsInput, TIMER_MIN, TIMER_MAX),
            !.State.shuffleOnStart = w.dom.shuffleOnStartInput,
            !.State.loopWhenFinished = w.dom.loopWhenFinishedInput,
            !.State.tiltEnabled = w.dom.tiltEnabledInput]

----------------------------------------------------------------------------
(* Timers due *)

DueTimes(w) == { w.timeouts[i].due : i \in DOMAIN w.timeouts }
                 \cup { iv.due : iv \in w.intervals }

\* the pending timeout that runs next: least due time, first scheduled first
NextTimeout(w) ==
  CHOOSE i \in DOMAIN w.timeouts :
    \A j \in DOMAIN w.timeouts :
       \/ w.timeouts[i].due < w.timeouts[j].due
       \/ (w.timeouts[i].due = w.timeouts[j].due /\ i <= j)

RemoveAt(seq, i) == [k \in 1..(Len(seq) - 1) |-> IF k < i THEN seq[k] ELSE seq[k + 1]]

----------------------------------------------------------------------------
(* Initial state: the page after init() (README.md 908-922), which loads   *)
(* the settings an earlier visit saved (a phrase list, the options) into   *)
(* the setup screen and State.  The round timer is the shortest one.       *)

\* const State = { ... }, README.md 169-199
InitState ==
  [mode |-> "setup",
   phrasesOriginal |-> <<>>, deck |-> <<>>,
   index |-> 0, shown |-> 0, got |-> 0, pass |-> 0,
   timerSeconds |-> 60, timeLeft |-> 60, timerId |-> null,
   shuffleOnStart |-> TRUE, loopWhenFinished |-> FALSE,
   tiltEnabled |-> FALSE, tiltPermissionGranted |-> FALSE,
   tiltListenerAttached |-> FALSE, tiltLastActionAt |-> 0,
   tiltArmed |-> TRUE, tiltNeutralBeta |-> 0, tiltHasBaseline |-> FALSE]

NoResults == [statTotal |-> 0, statGot |-> 0, statPass |-> 0, total |-> 0,
              reason |-> ""]

\* the page as loaded, before init() has run
InitDom ==
  [phrasesInput |-> <<>>,
   timerSecondsInput |-> 0,
   shuffleOnStartInput |-> FALSE,
   loopWhenFinishedInput |-> FALSE,
   tiltEnabledInput |-> FALSE,
   motionPermBtnHidden |-> TRUE,
   needsMotionPermission |-> FALSE,
   permission |-> "prompt",
   permRequests |-> 0,
   tiltStatus |-> <<"", "">>,
   results |-> NoResults,
   alert |-> ""]

\* applySettingsToUI, README.md 743-751 (every key of the saved settings is set)
applySettingsToUI(w, settings) ==
  [w EXCEPT !.dom.phrasesInput = settings.phrasesText,
            !.dom.timerSecondsInput = settings.timerSeconds,
            !.dom.shuffleOnStartInput = settings.shuffleOnStart,
            !.dom.loopWhenFinishedInput = settings.loopWhenFinished,
            !.dom.tiltEnabledInput = settings.tiltEnabled]

\* init, README.md 908-922
init(w) ==
  LET w1 == setScreen(syncOptionsFromUI(applySettingsToUI(w, w.storage)), "setup")
  IN [w1 EXCEPT !.dom.motionPermBtnHidden =
         ~(w1.State.tiltEnabled /\ isIOSNeedsMotionPermission(w1)
             /\ ~w1.State.tiltPermissionGranted)]

\* const Swipe = { active: false, startX: 0, startY: 0, startT: 0 }
InitSwipe == [active |-> FALSE, startX |-> 0, startY |-> 0, startT |-> 0]

\* The settings an earlier visit may have saved.
SavedSettings ==
  { [phrasesText |-> PhraseText(n), timerSeconds |-> TIMER_MIN,
     shuffleOnStart |-> sh, loopWhenFinished |-> lp, tiltEnabled |-> FALSE] :
       n \in 0..MaxDeck, sh \in BOOLEAN, lp \in BOOLEAN }

\* the page after init() has loaded one of the settings, on a platform that
\* has DeviceOrientationEvent.requestPermission (needs) or not
InitOn(settings, live, needs) ==
  \E saved \in settings :
    LET w == init([State |-> InitState,
                   dom |-> [InitDom EXCEPT !.needsMotionPermission = needs],
                   storage |-> saved,
                   timeouts |-> <<>>, intervals |-> {}, now |-> Epoch,
                   Swipe |-> InitSwipe,
                   hist |-> [nexts |-> 0, calls |-> 0, ends |-> {},
                             inputs |-> 0, call |-> "", live |-> live,
                             samples |-> 0, emit |-> "", tiltAt |-> 0,
                             latch |-> "fresh", last |-> NoSample,
                             seq |-> NoSequence, missed |-> 0,
                             looped |-> FALSE]])
    IN /\ State = w.State
       /\ dom = w.dom
       /\ storage = w.storage
       /\ timeouts = w.timeouts
       /\ intervals = w.intervals
       /\ now = w.now
       /\ Swipe = w.Swipe
       /\ hist = w.hist

InitFrom(settings, live) == InitOn(settings, live, FALSE)

\* live: the run follows the round timer to its end; these runs start with
\* the deck taken in list order
InitWith(live) ==
  InitFrom({ x \in SavedSettings : live => ~x.shuffleOnStart }, live)

Init == InitWith(FALSE)
InitLive == InitWith(TRUE)

----------------------------------------------------------------------------
(* Event handlers.  A control can be used only while its screen is the     *)
(* active one (setScreen shows exactly the screen of State.mode).          *)

\* the world as a user input event finds it
CanInput ==
  /\ hist.inputs < (IF hist.live THEN MaxLiveInputs ELSE MaxInputs)
  /\ \A iv \in intervals : now - iv.startedAt <= Horizon
Input == [World EXCEPT !.hist.inputs = @ + 1]

\* phrasesInput 'input' listener, README.md 754-757
PhrasesInput(n) ==
  /\ State.mode = "setup"
  /\ CanInput
  /\ dom.phrasesInput # PhraseText(n)
  /\ LET list == PhraseText(n)
         w1 == [Input EXCEPT !.dom.phrasesInput = list]
     IN Becomes(saveSettings(w1, [phrasesText |-> list]))

\* loopWhenFinishedInput 'change' listener, README.md 770-773
LoopChange ==
  /\ State.mode = "setup"
  /\ CanInput
  /\ LET w1 == syncOptionsFromUI([Input EXCEPT !.dom.loopWhenFinishedInput = ~@])
     IN Becomes(saveSettings(w1, [loopWhenFinished |-> w1.State.loopWhenFinished]))

\* startBtn 'click' listener, README.md 791-797
startBtnClick(w, rnd) ==
  LET w1 == syncOptionsFromUI(w)
      w2 == IF w1.State.tiltEnabled /\ isIOSNeedsMotionPermission(w1)
                 /\ ~w1.State.tiltPermissionGranted
            THEN [w1 EXCEPT !.dom.motionPermBtnHidden = FALSE]
            ELSE w1
  IN startRound(w2, rnd)

StartClick ==
  /\ State.mode = "setup"
  /\ CanInput
  /\ \E rnd \in RandomDraws(Len(parsePhrases(dom.phrasesInput))) :
       Becomes(startBtnClick(Input, rnd))

\* playAgainBtn 'click' listener, README.md 846-857
playAgainBtnClick_NoRestore(w, rnd) ==
  startRound([w EXCEPT !.State.shuffleOnStart = TRUE,
                       !.dom.shuffleOnStartInput = TRUE], rnd)

playAgainBtnClick(w, rnd) ==
  LET prevShuffle == w.State.shuffleOnStart
      w1 == [w EXCEPT !.State.shuffleOnStart = TRUE,
                      !.dom.shuffleOnStartInput = TRUE]
      w2 == startRound(w1, rnd)
      w3 == [w2 EXCEPT !.State.shuffleOnStart = prevShuffle,
                       !.dom.shuffleOnStartInput = prevShuffle]
  IN saveSettings(w3, [shuffleOnStart |-> prevShuffle])

PlayAgainClick ==
  /\ State.mode = "finished"
  /\ CanInput
  /\ \E rnd \in RandomDraws(Len(parsePhrases(dom.phrasesInput))) :
       Becomes(playAgainBtnClick(Input, rnd))

\* editListBtn 'click' listener, README.md 859-865
editListBtnClick(w) == setScreen(disableTiltListener(stopTimer(w)), "setup")

EditListClick ==
  /\ State.mode = "finished"
  /\ CanInput
  /\ Becomes(editListBtnClick(Input))

\* tapLeft / tapRight / nextBtn 'click' listeners, README.md 494-496
Tap(action) ==
  /\ State.mode = "running"
  /\ CanInput
  /\ Becomes(advance(Input, action))

\* endBtn 'click' listener, README.md 497
EndClick ==
  /\ State.mode = "running"
  /\ CanInput
  /\ Becomes(endRound(Input, EndedEarly))

\* a setTimeout callback runs; the earliest due one, once its time has come
TimeoutFires ==
  /\ timeouts # <<>>
  /\ LET i == NextTimeout(World)
         t == timeouts[i]
         w1 == [World EXCEPT !.timeouts = RemoveAt(@, i)]
     IN /\ t.due <= now
        /\ IF t.kind = "advance"
           THEN Becomes(advanceCallback(w1, t))
           ELSE Becomes(endRoundCallback(w1, t))

\* the round timer's setInterval callback runs and is rescheduled
TimerFires ==
  \E iv \in intervals :
    /\ iv.due <= now
    /\ LET w1 == [World EXCEPT !.intervals =
                     (@ \ {iv}) \cup {[iv EXCEPT !.due = @ + TIMER_POLL]}]
       IN Becomes(timerCallback(w1, iv))

\* A clock reading t after d more ms have passed.  A reading that is `keep`
\* ms old or older is only ever compared against `keep`, and is kept as 0.
Aged(t, d, keep) == IF t = 0 \/ now - (t - d) >= keep THEN 0 ELSE t - d

\* time passes until the next timer is due
Tick ==
  /\ DueTimes(World) # {}
  /\ \A d \in DueTimes(World) : d > now
  /\ \E d \in DueTimes(World) :
       /\ \A e \in DueTimes(World) : d <= e
       /\ hist.live \/ \A iv \in intervals : d - iv.startedAt <= Horizon
       /\ timeouts' = [i \in DOMAIN timeouts |->
                         [timeouts[i] EXCEPT !.due = @ - (d - now)]]
       /\ intervals' = { [iv EXCEPT !.due = @ - (d - now),
                                    !.startedAt = @ - (d - now)] : iv \in intervals }
       /\ State' = [State EXCEPT !.tiltLastActionAt = Aged(@, d - now, TILT_minIntervalMs)]
       /\ Swipe' = [Swipe EXCEPT !.startT = Aged(@, d - now, SWIPE_MAX_MS + 1)]
       /\ hist' = [hist EXCEPT !.call = ""]
       /\ UNCHANGED <<dom, storage, now>>

Next ==
  \/ \E n \in 0..MaxDeck : PhrasesInput(n)
  \/ LoopChange
  \/ StartClick
  \/ PlayAgainClick
  \/ EditListClick
  \/ \E a \in Actions : Tap(a)
  \/ EndClick
  \/ TimeoutFires
  \/ TimerFires
  \/ Tick

Spec == Init /\ [][Next]_vars

----------------------------------------------------------------------------
(* The handlers called directly: the click listeners of tapLeft, tapRight  *)
(* and nextBtn stay registered in every mode, so advance can be entered    *)
(* while the game screen is not the active one (a synthetic click, a       *)
(* keyboard activation of a button that kept the focus).                   *)

CallAdvance(action) ==
  /\ State.mode # "running"
  /\ CanInput
  /\ Goes(advance(Input, action), action)

NextCalls ==
  \/ Next
  \/ \E a \in Actions : CallAdvance(a)

SpecCalls == Init /\ [][NextCalls]_vars

\* Runs that follow the round timer to its end.  The event loop runs every
\* timer callback that is due, and time passes.
SpecLive ==
  /\ InitLive
  /\ [][Next]_vars
  /\ WF_vars(TimeoutFires)
  /\ WF_vars(TimerFires)
  /\ WF_vars(Tick)

----------------------------------------------------------------------------
(* Swipe detector, README.md 427-477 (movement.js 25-58 is the same code).  *)
(* The player swipes; a gesture starts at one of SwipeStarts and ends at    *)
(* one of SwipeEnds (clientX, clientY in px), chosen around the thresholds. *)

SwipeStarts == {<<50, 0>>, <<51, 0>>}
SwipeEnds == {8, 9, 92, 93} \X {10, 80, 81}

Abs(n) == IF n < 0 THEN -n ELSE n

\* swipeStart, README.md 435-441
swipeStart(w, x, y) ==
  IF w.State.mode # "running" THEN w
  ELSE [w EXCEPT !.Swipe = [active |-> TRUE, startX |-> x, startY |-> y,
                            startT |-> w.now]]

\* swipeEnd, README.md 443-462
swipeEnd_StrictThreshold(w, x, y) ==
  IF ~w.Swipe.active \/ w.State.mode # "running" THEN w
  ELSE LET w1 == [w EXCEPT !.Swipe.active = FALSE]
           dx == x - w.Swipe.startX
           dy == y - w.Swipe.startY
           dt == w.now - w.Swipe.startT
           isQuickEnough == dt <= SWIPE_MAX_MS
           isFarEnough == Abs(dx) > SWIPE_THRESHOLD_PX
           isMostlyHorizontal == Abs(dy) <= SWIPE_MAX_OFF_AXIS
       IN IF isQuickEnough /\ isFarEnough /\ isMostlyHorizontal
          THEN IF dx > 0 THEN advance(w1, "got") ELSE advance(w1, "pass")
          ELSE w1

swipeEnd(w, x, y) ==
  IF ~w.Swipe.active \/ w.State.mode # "running" THEN w
  ELSE LET w1 == [w EXCEPT !.Swipe.active = FALSE]
           dx == x - w.Swipe.startX
           dy == y - w.Swipe.startY
           dt == w.now - w.Swipe.startT
           isQuickEnough == dt <= SWIPE_MAX_MS
           isFarEnough == Abs(dx) >= SWIPE_THRESHOLD_PX
           isMostlyHorizontal == Abs(dy) <= SWIPE_MAX_OFF_AXIS
       IN IF isQuickEnough /\ isFarEnough /\ isMostlyHorizontal
          THEN IF dx > 0 THEN advance(w1, "got") ELSE advance(w1, "pass")
          ELSE w1

\* gameStage 'pointerdown' and 'touchstart' listeners, README.md 464-468, 476
SwipeStart(x, y) ==
  /\ State.mode = "running"
  /\ CanInput
  /\ Becomes(swipeStart(Input, x, y))

\* gameStage 'pointerup' and 'touchend' listeners, README.md 470-474, 477;
\* a gesture under way ends whenever the finger is lifted
SwipeEnd(x, y) ==
  /\ State.mode = "running"
  /\ hist.inputs < MaxLiveInputs
  /\ Becomes(swipeEnd(Input, x, y))

\* SwipeStep ms pass while a gesture is under way and may still count; no
\* timer is due before that
Wait ==
  /\ Swipe.active
  /\ Swipe.startT # 0
  /\ \A d \in DueTimes(World) : d >= now + SwipeStep
  /\ timeouts' = [i \in DOMAIN timeouts |->
                    [timeouts[i] EXCEPT !.due = @ - SwipeStep]]
  /\ intervals' = { [iv EXCEPT !.due = @ - SwipeStep,
                               !.startedAt = @ - SwipeStep] : iv \in intervals }
  /\ State' = [State EXCEPT !.tiltLastActionAt = Aged(@, SwipeStep, TILT_minIntervalMs)]
  /\ Swipe' = [Swipe EXCEPT !.startT = Aged(@, SwipeStep, SWIPE_MAX_MS + 1)]
  /\ hist' = [hist EXCEPT !.call = ""]
  /\ UNCHANGED <<dom, storage, now>>

NextSwipe ==
  \/ StartClick
  \/ \E p \in SwipeStarts : SwipeStart(p[1], p[2])
  \/ \E p \in SwipeEnds : SwipeEnd(p[1], p[2])
  \/ TimeoutFires
  \/ TimerFires
  \/ Tick
  \/ Wait

\* The player only swipes; the runs follow the round timer to its end.
SpecSwipe == InitLive /\ [][NextSwipe]_vars

----------------------------------------------------------------------------
(* Tilt recognizer, README.md 652-704 (movement.js 196-248 is the same      *)
(* code).  Angles are integers in 1/Scale degrees; the smoothing step       *)
(* delta * 0.12 is rounded down to that resolution.  The device reports     *)
(* beta as one of TiltBetas (degrees), or reports an event whose beta is    *)
(* not a number.                                                            *)

TiltBetas == {0, 17, 18, 20, 25}
TiltEvents ==
  { [numeric |-> TRUE, beta |-> b * Scale] : b \in TiltBetas } \cup {NoSample}

\* the offsets from the first sample, in degrees, of the samples 2, 3, 4 of
\* the sequence "excursion, return to neutral, excursion"
TiltSequence == <<25, 0, 20>>

\* shouldListenTilt, README.md 617-619
shouldListenTilt(w) == w.State.tiltEnabled /\ w.State.mode = "running"

\* calibrateBaseline, README.md 652-662
calibrateBaseline_AlwaysSmooths(w, beta) ==
  IF ~w.State.tiltHasBaseline
  THEN [w EXCEPT !.State.tiltNeutralBeta = beta, !.State.tiltHasBaseline = TRUE]
  ELSE [w EXCEPT !.State.tiltNeutralBeta =
          @ + (((beta - @) * TILT_baselineSmoothing) \div 100)]

calibrateBaseline(w, beta) ==
  IF ~w.State.tiltHasBaseline
  THEN [w EXCEPT !.State.tiltNeutralBeta = beta, !.State.tiltHasBaseline = TRUE]
  ELSE LET delta == beta - w.State.tiltNeutralBeta
       IN IF Abs(delta) <= (TILT_neutralZoneAbs + TILT_baselineSlack) * Scale
          THEN [w EXCEPT !.State.tiltNeutralBeta =
                           @ + ((delta * TILT_baselineSmoothing) \div 100)]
          ELSE w

\* the history after the listener has processed the numeric sample e:
\* emit is the action passed to advance ("" if none), delta the offset
\* from the baseline the handler computed
Sampled(w, e, emit, delta) ==
  LET q == w.hist.seq
      follows == \/ q.k = 0
                 \/ /\ q.k \in 1..Len(TiltSequence)
                    /\ q.at = 0
                    /\ e.beta - q.base = TiltSequence[q.k] * Scale
  IN [w EXCEPT
        !.hist.emit = emit,
        !.hist.last = e,
        !.hist.tiltAt = IF emit # "" THEN w.now ELSE @,
        !.hist.latch = IF emit # "" THEN "fired"
                       ELSE IF @ = "fired" /\ Abs(delta) <= TILT_neutralZoneAbs * Scale
                       THEN "returned" ELSE @,
        !.hist.seq = IF follows /\ q.k < Len(TiltSequence)
                     THEN [k |-> q.k + 1,
                           base |-> IF q.k = 0 THEN e.beta ELSE q.base,
                           at |-> w.now]
                     ELSE IF follows
                     THEN [k |-> q.k + 1, base |-> 0, at |-> 0]
                     ELSE [k |-> -1, base |-> 0, at |-> 0]]

\* delta lies in the neutral zone
tiltNeutral(delta) == Abs(delta) <= TILT_neutralZoneAbs * Scale

\* the block "if (!State.tiltArmed) { ... return; }", README.md 673-681
tiltRearm_Never(w, e, delta) ==
  Sampled(setTiltStatus(w, IF tiltNeutral(delta) THEN "Neutral"
                           ELSE IF delta > 0 THEN "Forward..." ELSE "Backward..."),
          e, "", delta)

tiltRearm_Always(w, e, delta) ==
  Sampled(setTiltStatus([w EXCEPT !.State.tiltArmed = TRUE], "Neutral"), e, "", delta)

tiltRearm(w, e, delta) ==
  IF tiltNeutral(delta)
  THEN Sampled(setTiltStatus([w EXCEPT !.State.tiltArmed = TRUE], "Neutral"),
               e, "", delta)
  ELSE Sampled(setTiltStatus(w, IF delta > 0 THEN "Forward..." ELSE "Backward..."),
               e, "", delta)

\* the debounce test, README.md 683-684
tiltDebounced_Never(w) == FALSE

tiltDebounced(w) == w.now - w.State.tiltLastActionAt < TILT_minIntervalMs

\* one of the two trigger blocks, README.md 686-692 and 694-700
tiltFire(w, e, delta, status, action) ==
  LET w2 == [w EXCEPT !.State.tiltArmed = FALSE,
                      !.State.tiltLastActionAt = w.now]
  IN advance(Sampled(setTiltStatus(w2, status), e, action, delta), action)

\* the triggers and the status line of an armed recognizer, README.md 686-703
tiltTrigger_Strict(w, e, delta) ==
  IF delta > TILT_forwardTriggerDelta * Scale
  THEN tiltFire(w, e, delta, "Got it", "got")
  ELSE IF delta < TILT_backwardTriggerDelta * Scale
  THEN tiltFire(w, e, delta, "Pass", "pass")
  ELSE Sampled(setTiltStatus(w, IF tiltNeutral(delta) THEN "Neutral"
                                ELSE IF delta > 0 THEN "Forward" ELSE "Backward"),
               e, "", delta)

tiltTrigger(w, e, delta) ==
  IF delta >= TILT_forwardTriggerDelta * Scale
  THEN tiltFire(w, e, delta, "Got it", "got")
  ELSE IF delta <= TILT_backwardTriggerDelta * Scale
  THEN tiltFire(w, e, delta, "Pass", "pass")
  ELSE Sampled(setTiltStatus(w, IF tiltNeutral(delta) THEN "Neutral"
                                ELSE IF delta > 0 THEN "Forward" ELSE "Backward"),
               e, "", delta)

\* the handler after its two early returns, README.md 670-703
tiltSample(w, e) ==
  LET w1 == calibrateBaseline(w, e.beta)
      delta == e.beta - w1.State.tiltNeutralBeta
  IN IF ~w1.State.tiltArmed THEN tiltRearm(w1, e, delta)
     ELSE IF tiltDebounced(w1) THEN Sampled(w1, e, "", delta)
     ELSE tiltTrigger(w1, e, delta)

\* onDeviceOrientation with the baseline taken before beta is tested: an
\* event without a number becomes the baseline 0
onDeviceOrientation_CalibratesFirst(w, e) ==
  IF ~shouldListenTilt(w) THEN w
  ELSE IF ~e.numeric THEN calibrateBaseline(w, e.beta)
  ELSE tiltSample(w, e)

\* onDeviceOrientation, README.md 664-704
onDeviceOrientation(w, e) ==
  IF ~shouldListenTilt(w) THEN w
  ELSE IF ~e.numeric THEN w
  ELSE tiltSample(w, e)

\* a 'deviceorientation' event reaches the listener attachTiltListener added
OrientationSample(e) ==
  /\ State.tiltListenerAttached
  /\ hist.samples < MaxSamples
  /\ \A iv \in intervals : now - iv.startedAt <= TiltHorizon
  /\ Becomes(onDeviceOrientation([World EXCEPT !.hist.samples = @ + 1,
                                               !.hist.emit = "",
                                               !.hist.last = NoSample], e))

\* time passes until the next timer is due, while orientation events may
\* still arrive
TiltTick ==
  /\ DueTimes(World) # {}
  /\ \E d \in DueTimes(World) :
       /\ d > now
       /\ \A e \in DueTimes(World) : d <= e
       /\ \A iv \in intervals : d - iv.startedAt <= TiltHorizon
       /\ timeouts' = [i \in DOMAIN timeouts |->
                         [timeouts[i] EXCEPT !.due = @ - (d - now)]]
       /\ intervals' = { [iv EXCEPT !.due = @ - (d - now),
                                    !.startedAt = @ - (d - now)] : iv \in intervals }
       /\ State' = [State EXCEPT !.tiltLastActionAt = Aged(@, d - now, TILT_minIntervalMs)]
       /\ hist' = [hist EXCEPT !.call = "",
                               !.emit = "",
                               !.last = NoSample,
                               !.tiltAt = Aged(@, d - now, TILT_minIntervalMs),
                               !.seq.at = Aged(@, d - now, TILT_minIntervalMs + 1)]
       /\ UNCHANGED <<dom, storage, now, Swipe>>

\* The settings of a player who has switched tilt controls on: a list that
\* is not empty, played once in list order.
TiltSettings ==
  { [x EXCEPT !.tiltEnabled = TRUE] :
      x \in { y \in SavedSettings : /\ ~y.shuffleOnStart
                                    /\ ~y.loopWhenFinished
                                    /\ Len(parsePhrases(y.phrasesText)) > 0 } }

InitTilt == InitFrom(TiltSettings, FALSE)

NextTilt ==
  \/ StartClick
  \/ PlayAgainClick
  \/ \E e \in TiltEvents : OrientationSample(e)
  \/ TimeoutFires
  \/ TimerFires
  \/ TiltTick

\* The player holds the device and tilts it; the platform needs no motion
\* permission.
SpecTilt == InitTilt /\ [][NextTilt]_vars

----------------------------------------------------------------------------
(* A throttled timer: the browser may drop ticks of setInterval (a page in  *)
(* the background, a busy main thread).  A dropped tick runs no callback;   *)
(* the interval stays scheduled for its next period.                        *)

TimerSkips ==
  /\ hist.missed < MaxMissed
  /\ \E iv \in intervals :
       /\ iv.due <= now
       /\ intervals' = (intervals \ {iv}) \cup {[iv EXCEPT !.due = @ + TIMER_POLL]}
  /\ hist' = [hist EXCEPT !.missed = @ + 1, !.call = ""]
  /\ UNCHANGED <<State, dom, storage, timeouts, now, Swipe>>

NextThrottle ==
  \/ StartClick
  \/ \E a \in Actions : Tap(a)
  \/ TimeoutFires
  \/ TimerFires
  \/ TimerSkips
  \/ Tick

\* The runs follow the round timer to its end while ticks are dropped.
SpecThrottle == InitLive /\ [][NextThrottle]_vars

----------------------------------------------------------------------------
(* Motion permission, README.md 591-604 and 706-723 (movement.js 250-271).  *)
(* The platform (dom.permission) has not decided yet ("prompt"), or has     *)
(* decided: once the user has answered, every request gets that answer.     *)
(* dom.permRequests counts the calls of requestPermission whose promise is  *)
(* still pending; the click handler resumes when the promise settles.       *)

\* what DeviceOrientationEvent.requestPermission() may settle with
PermissionAnswers ==
  IF dom.permission = "prompt" THEN {"granted", "denied", "throws"}
  ELSE {dom.permission}

\* motionPermBtn 'click' listener after "await requestMotionPermission()"
motionPermResumed(w, ok) ==
  IF ~ok
  THEN LET w1 == [w EXCEPT !.dom.alert = "Motion permission was not granted.",
                           !.State.tiltEnabled = FALSE,
                           !.dom.tiltEnabledInput = FALSE,
                           !.dom.motionPermBtnHidden = TRUE]
       IN saveSettings(w1, [tiltEnabled |-> FALSE])
  ELSE LET w1 == [w EXCEPT !.dom.motionPermBtnHidden = TRUE]
       IN IF w1.State.mode = "running" THEN maybeEnableTiltDuringGame(w1)
          ELSE setTiltStatus(w1, "Ready")

\* motionPermBtn 'click' listener up to the await, README.md 706-707 and
\* requestMotionPermission, README.md 591-597
motionPermBtnClick(w) ==
  IF ~isIOSNeedsMotionPermission(w)
  THEN motionPermResumed([w EXCEPT !.State.tiltPermissionGranted = TRUE], TRUE)
  ELSE [w EXCEPT !.dom.permRequests = @ + 1]

\* the button is shown on the setup screen and during a round
MotionPermClick ==
  /\ ~dom.motionPermBtnHidden
  /\ State.mode # "finished"
  /\ CanInput
  /\ dom.permRequests < MaxRequests
  /\ Becomes(motionPermBtnClick(Input))

\* the promise of requestPermission settles, README.md 597-603, and the
\* click handler runs to its end, README.md 708-722
requestSettles(w, res) ==
  LET ok == res = "granted"
      w1 == [w EXCEPT !.dom.permRequests = @ - 1,
                      !.dom.permission = IF res = "throws" THEN @ ELSE res,
                      !.State.tiltPermissionGranted = ok]
  IN motionPermResumed(w1, ok)

PermissionAnswer(res) ==
  /\ dom.permRequests > 0
  /\ res \in PermissionAnswers
  /\ Becomes(requestSettles(World, res))

\* tiltEnabledInput 'change' listener, README.md 780-789
tiltEnabledChange(w) ==
  LET w1 == syncOptionsFromUI([w EXCEPT !.dom.tiltEnabledInput = ~@])
      w2 == saveSettings(w1, [tiltEnabled |-> w1.State.tiltEnabled])
  IN [w2 EXCEPT !.dom.motionPermBtnHidden =
        ~(w2.State.tiltEnabled /\ isIOSNeedsMotionPermission(w2)
            /\ ~w2.State.tiltPermissionGranted)]

TiltEnabledChange ==
  /\ State.mode = "setup"
  /\ CanInput
  /\ Becomes(tiltEnabledChange(Input))

\* The saved settings of a player on a platform that asks for the motion
\* permission: a list that is not empty, played once in list order.
PermSettings ==
  { x \in SavedSettings : /\ ~x.shuffleOnStart
                          /\ ~x.loopWhenFinished
                          /\ Len(parsePhrases(x.phrasesText)) > 0 }
    \cup TiltSettings

InitPerm == InitOn(PermSettings, FALSE, TRUE)

\* the device lies flat or is tilted forward
PermEvents == { [numeric |-> TRUE, beta |-> b * Scale] : b \in {0, 25} }

NextPerm ==
  \/ TiltEnabledChange
  \/ StartClick
  \/ MotionPermClick
  \/ \E res \in {"granted", "denied", "throws"} : PermissionAnswer(res)
  \/ \E e \in PermEvents : OrientationSample(e)
  \/ TimeoutFires
  \/ TimerFires
  \/ TiltTick

SpecPerm == InitPerm /\ [][NextPerm]_vars

----------------------------------------------------------------------------
(* A whole round under every kind of event, followed to its end.  The page  *)
(* may be hidden (README.md 867-872) and shown again with its state kept,   *)
(* as the back/forward cache of the browser does.                           *)

\* window 'pagehide' listener, README.md 867-872 (the wake lock is not
\* part of the state)
pagehide(w) == disableTiltListener(stopTimer(w))

\* hiding a page whose timer and listener are already off changes nothing
PageHide ==
  /\ State.timerId # null \/ State.tiltListenerAttached
  /\ Becomes(pagehide(World))

\* The saved settings of these rounds: tilt switched on, a list that is not
\* empty taken in list order, played once or in a loop.
RoundSettings ==
  { [x EXCEPT !.tiltEnabled = TRUE] :
      x \in { y \in SavedSettings : /\ ~y.shuffleOnStart
                                    /\ Len(parsePhrases(y.phrasesText)) > 0 } }

InitRound == InitOn(RoundSettings, TRUE, TRUE)

\* a swipe to the right from the first of SwipeStarts
RoundSwipeStart == <<50, 0>>
RoundSwipeEnd == <<92, 10>>

NextRound ==
  \/ StartClick
  \/ \E a \in Actions : Tap(a)
  \/ EndClick
  \/ SwipeStart(RoundSwipeStart[1], RoundSwipeStart[2])
  \/ SwipeEnd(RoundSwipeEnd[1], RoundSwipeEnd[2])
  \/ MotionPermClick
  \/ \E res \in {"granted", "denied", "throws"} : PermissionAnswer(res)
  \/ \E e \in PermEvents : OrientationSample(e)
  \/ PageHide
  \/ TimeoutFires
  \/ TimerFires
  \/ Tick

\* The event loop runs every timer callback that is due, and time passes.
SpecRound ==
  /\ InitRound
  /\ [][NextRound]_vars
  /\ WF_vars(TimeoutFires)
  /\ WF_vars(TimerFires)
  /\ WF_vars(Tick)

----------------------------------------------------------------------------
(* Claims *)

\* the setTimeout callback a TimeoutFires step runs
Firing == timeouts[NextTimeout(World)]

\* a step runs the callback that a call of endRound scheduled
EndRoundRuns == TimeoutFires /\ Firing.kind = "endRound"

\* a step runs startRound past its check of the phrase list
RoundStarts == (StartClick \/ PlayAgainClick) /\ hist'.calls = 0 /\ State'.mode = "running"

\* C1: every change of State.mode is setup->running, running->finished,
\* finished->setup or finished->running.
ModeChanges == { <<"setup", "running">>, <<"running", "finished">>,
                 <<"finished", "setup">>, <<"finished", "running">> }

C1_ModeTransitions ==
  [][State'.mode # State.mode => <<State.mode, State'.mode>> \in ModeChanges]_vars

\* C2: when endRound(reason) was called in mode running, the round's move to
\* finished shows that reason and the values shown, got and pass had when
\* endRound was called, and index is the one of that moment: no advance was
\* applied in between.
C2_SnapshotOfTheCall ==
  [][(EndRoundRuns /\ Firing.called.mode = "running" /\ ~Firing.stale)
       => /\ State'.mode = "finished"
          /\ dom'.results.reason = Firing.reason
          /\ dom'.results.statTotal = Firing.called.shown
          /\ dom'.results.statGot = Firing.called.got
          /\ dom'.results.statPass = Firing.called.pass
          /\ State'.index = Firing.called.index]_vars

\* C3: a second call of endRound in a round adds nothing to the first: once
\* the first call has finished the round, what the second call scheduled
\* leaves mode, the counters and the results snapshot (reason included) as
\* they are.
C3_EndRoundTwice ==
  [][(EndRoundRuns /\ Firing.again /\ ~Firing.stale /\ State.mode = "finished")
       => /\ State' = State
          /\ dom'.results = dom.results]_vars

\* C4: a call of endRound made in mode setup or finished changes nothing, and
\* neither does the callback it scheduled: mode, index, shown, got, pass and
\* the results shown stay as they are.
C4_EndRoundOutsideRunning ==
  [][(EndRoundRuns /\ Firing.called.mode # "running")
       => /\ State' = State
          /\ dom'.results = dom.results]_vars

\* C5: advance(action) called in mode setup or finished, for every action,
\* leaves State (index, shown, got, pass, mode and the rest) unchanged and
\* schedules no callback: the pending timeouts and the timer are the same.
C5_AdvanceNotRunning ==
  [][\A a \in Actions : CallAdvance(a)
       => /\ State' = State
          /\ timeouts' = timeouts
          /\ intervals' = intervals
          /\ dom' = dom
          /\ hist'.calls = hist.calls]_vars

\* a call of advance was made on the results screen of a round that counted
\* phrases, and on the setup screen
C5_Witness ==
  /\ hist.call = "got"
  /\ State.mode = "finished"
  /\ State.shown > 0
  /\ State.index < Len(State.deck)

\* C6: advance(action) in mode running with a current entry adds 1 to shown,
\* 1 to got iff action = got, 1 to pass iff action = pass, neither for next,
\* and 1 to index whatever the action, all in the call: the 420 ms callback
\* is only scheduled by it, and no time has passed.
C6_AdvanceCounts ==
  [][\A a \in Actions : (Tap(a) /\ HasCurrent(State))
       => /\ State'.shown = State.shown + 1
          /\ State'.got = State.got + (IF a = "got" THEN 1 ELSE 0)
          /\ State'.pass = State.pass + (IF a = "pass" THEN 1 ELSE 0)
          /\ State'.index = State.index + 1
          /\ State'.mode = "running"
          /\ now' = now
          /\ Len(timeouts') = Len(timeouts) + 1
          /\ timeouts'[Len(timeouts')].kind = "advance"
          /\ timeouts'[Len(timeouts')].due = now + FEEDBACK_DELAY
          /\ \A i \in DOMAIN timeouts : timeouts'[i] = timeouts[i]]_vars

\* a got and a next have been counted and neither callback has run yet
C6_Witness ==
  /\ State.mode = "running"
  /\ State.shown = 2 /\ State.got = 1 /\ State.pass = 0 /\ hist.nexts = 1
  /\ State.index = 2
  /\ Len(timeouts) = 2
  /\ \A i \in DOMAIN timeouts : timeouts[i].kind = "advance" /\ timeouts[i].due > now

\* C7: in every reachable state 0 <= index <= deck.length and
\* shown = got + pass + the next actions counted in the round, so
\* got + pass <= shown.
C7_Counters ==
  /\ 0 <= State.index
  /\ State.index <= Len(State.deck)
  /\ State.shown = State.got + State.pass + hist.nexts
  /\ State.got + State.pass <= State.shown

\* the deck is exhausted with a pass and a next counted
C7_Witness ==
  /\ State.index = Len(State.deck)
  /\ Len(State.deck) = 2
  /\ State.pass = 1 /\ hist.nexts = 1 /\ State.shown = 2

\* C8: every step that lowers index is startRound, or sets index to 0 when
\* index equals deck.length with looping enabled.
C8_IndexForward ==
  [][State'.index < State.index
       => \/ RoundStarts
          \/ /\ State'.index = 0
             /\ State.index = Len(State.deck)
             /\ State.loopWhenFinished]_vars

\* C9: looping disabled, a deck of N >= 1 items.  The calls of advance move
\* index 0, 1, ..., N, one entry counted each; from the N-th call on, the end
\* of the round by the call's own check is pending (its 420 ms callback, then
\* the callback of endRound); and with no manual end and no timer expiry the
\* round reaches finished with 'Reached the end of the list' and shown = N,
\* whether or not another call of advance is made.
RunningNoLoop == State.mode = "running" /\ ~State.loopWhenFinished

EndPending ==
  \E i \in DOMAIN timeouts :
    /\ ~timeouts[i].stale
    /\ \/ timeouts[i].kind = "advance" /\ timeouts[i].atEnd
       \/ timeouts[i].kind = "endRound" /\ timeouts[i].reason = ReachedEnd

OtherEnd ==
  \/ hist.ends \cap {EndedEarly, TimeIsUp} # {}
  \/ \E i \in DOMAIN timeouts :
       timeouts[i].kind = "endRound" /\ timeouts[i].reason # ReachedEnd

DeckDone ==
  /\ RunningNoLoop
  /\ hist.calls = Len(State.deck)
  /\ ~OtherEnd

EndOfList ==
  /\ State.mode = "finished"
  /\ dom.results.reason = ReachedEnd
  /\ dom.results.statTotal = Len(State.deck)
  /\ State.shown = Len(State.deck)

C9_EndOfDeck ==
  /\ [](RunningNoLoop =>
          /\ Len(State.deck) >= 1
          /\ State.index = Min(hist.calls, Len(State.deck))
          /\ State.shown = State.index)
  /\ [](RunningNoLoop /\ State.index = Len(State.deck) => EndPending)
  /\ (DeckDone ~> (EndOfList \/ OtherEnd))

\* two calls on a deck of two ended the round, and no other call was made
C9_Witness ==
  /\ EndOfList
  /\ ~State.loopWhenFinished
  /\ Len(State.deck) = 2
  /\ hist.calls = 2
  /\ hist.ends = {ReachedEnd}
  /\ timeouts = <<>>

\* C10 as stated: looping enabled, N advances made; the (N+1)-th call of
\* advance leaves index = 0 and mode running.
NextCallAfterDeck ==
  /\ State.mode = "running"
  /\ State.loopWhenFinished
  /\ hist.calls = Len(State.deck)

C10_NextCallWraps ==
  [][\A a \in Actions : (Tap(a) /\ NextCallAfterDeck)
       => State'.index = 0 /\ State'.mode = "running"]_vars

\* C10, amended: looping enabled, N advances made.  The (N+1)-th call of
\* advance leaves mode running; it sets index to 0, counting nothing, if it
\* finds index = N (the N-th call's 420 ms callback has not run yet), and
\* otherwise counts the entry at index as any call does.  No end-of-deck
\* check of a looping round calls endRound.
C10_Looping ==
  /\ [][\A a \in Actions : (Tap(a) /\ NextCallAfterDeck)
          => /\ State'.mode = "running"
             /\ IF State.index = Len(State.deck)
                THEN State'.index = 0 /\ State'.shown = State.shown
                                      /\ timeouts' = timeouts
                ELSE State'.index = State.index + 1
                       /\ State'.shown = State.shown + 1]_vars
  /\ [](State.mode = "running" /\ State.loopWhenFinished
          => ReachedEnd \notin hist.ends)

\* the third call on a deck of two wrapped index before any callback ran
C10_Witness ==
  /\ State.mode = "running"
  /\ State.loopWhenFinished
  /\ Len(State.deck) = 2
  /\ hist.calls = 3
  /\ State.index = 0
  /\ State.shown = 2
  /\ Len(timeouts) = 2

\* C11: startRound on a text whose parsed phrase list is empty reports the
\* validation error and changes nothing else: State (mode, deck, index, the
\* counters, timeLeft, the tilt calibration, timerId, the tilt listener flag),
\* the timer, the pending callbacks and the saved settings are the same.
EmptyList == Len(parsePhrases(dom.phrasesInput)) = 0

C11_EmptyListRejected ==
  [][((StartClick \/ PlayAgainClick) /\ EmptyList)
       => /\ State' = State
          /\ intervals' = intervals
          /\ timeouts' = timeouts
          /\ storage' = storage
          /\ dom'.results = dom.results
          /\ dom'.alert = "Please add at least one phrase to start."]_vars

\* the error has been reported for a text of one '#' line, on the setup screen
C11_Witness ==
  /\ dom.alert = "Please add at least one phrase to start."
  /\ State.mode = "setup"
  /\ Len(dom.phrasesInput) = 1
  /\ State.timerId = null
  /\ intervals = {}

\* C14: swipeEnd on a gesture under way, with dx, dy, dt measured from the
\* recorded start: no action if dt > 800 or |dx| < 42 or |dy| > 80; otherwise
\* exactly one call of advance, with got if dx > 0 and pass if dx < 0.  The
\* gesture is over either way.
C14_SwipeClassified ==
  [][\A p \in SwipeEnds : (SwipeEnd(p[1], p[2]) /\ Swipe.active)
       => LET dx == p[1] - Swipe.startX
              dy == p[2] - Swipe.startY
              dt == now - Swipe.startT
          IN /\ ~Swipe'.active
             /\ IF dt > 800 \/ Abs(dx) < 42 \/ Abs(dy) > 80
                THEN /\ hist'.calls = hist.calls
                     /\ State' = State
                     /\ timeouts' = timeouts
                ELSE /\ hist'.calls = hist.calls + 1
                     /\ dx # 0
                     /\ HasCurrent(State) =>
                          /\ State'.shown = State.shown + 1
                          /\ State'.got = State.got + (IF dx > 0 THEN 1 ELSE 0)
                          /\ State'.pass = State.pass + (IF dx < 0 THEN 1 ELSE 0)]_vars

\* a swipe to the right that took exactly 800 ms has just been counted as
\* got, and its feedback callback is pending
C14_Witness ==
  /\ State.mode = "running"
  /\ ~Swipe.active
  /\ Swipe.startT = now - 800
  /\ Swipe.startX = 50 /\ Swipe.startY = 0
  /\ State.got = 1 /\ State.shown = 1 /\ hist.calls = 1
  /\ Len(timeouts) = 1
  /\ timeouts[1].due = now + FEEDBACK_DELAY

\* C15: a swipeStart that arrives while a gesture is under way is ignored:
\* startX, startY and startT stay those of the first swipeStart.
C15_SecondStartIgnored ==
  [][\A p \in SwipeStarts : (SwipeStart(p[1], p[2]) /\ Swipe.active)
       => Swipe' = Swipe]_vars

\* C13: whenever mode is not running (setup or finished), the tilt
\* orientation listener is detached and no round timer is active, also after
\* a delayed end callback has fired around the end of a round.
C13_NothingLeftOutsideRunning ==
  State.mode # "running" =>
    ~State.tiltListenerAttached /\ State.timerId = null /\ intervals = {}

\* C12: every successful startRound, also one that follows a round that was
\* played and ended, leaves index = shown = got = pass = 0, timeLeft =
\* timerSeconds, tiltHasBaseline = false, tiltArmed = true,
\* tiltLastActionAt = 0 and mode = running.
C12_RoundStartsClean ==
  [][((StartClick \/ PlayAgainClick) /\ ~EmptyList) =>
       /\ State'.mode = "running"
       /\ State'.index = 0 /\ State'.shown = 0
       /\ State'.got = 0 /\ State'.pass = 0
       /\ State'.timeLeft = State'.timerSeconds
       /\ ~State'.tiltHasBaseline
       /\ State'.tiltArmed
       /\ State'.tiltLastActionAt = 0]_vars

\* a second round has just started; the first one was ended by the tilt
\* action its second sample emitted (its results show one got)
C12_Witness ==
  /\ State.mode = "running"
  /\ \E iv \in intervals : iv.startedAt = now
  /\ dom.results.statGot = 1 /\ dom.results.reason = ReachedEnd
  /\ hist.samples = 2 /\ hist.last = NoSample
  /\ State.got = 0 /\ State.shown = 0 /\ State.index = 0
  /\ ~State.tiltHasBaseline /\ State.tiltArmed /\ State.tiltLastActionAt = 0

\* a step in which an orientation event is delivered (OrientationSample is
\* the only action that counts one)
TiltSampleStep == hist'.samples = hist.samples + 1

\* the listener processes the k-th sample of the sequence b, b+25, b+0,
\* b+20 of a round, each sample more than 700 ms after the one before
SequenceSample(k) ==
  /\ TiltSampleStep
  /\ hist.seq.k = k - 1
  /\ hist'.seq.k = k

\* C16: in a fresh round with tilt enabled, over the samples b (sets the
\* baseline), b+25, b+0, b+20, spaced more than 700 ms apart, the recognizer
\* emits got exactly once: on the b+20 sample, not on the excursion b+25.
C16_FiresOnSecondExcursionOnly ==
  [][/\ (SequenceSample(1) \/ SequenceSample(2) \/ SequenceSample(3))
          => hist'.emit = ""
     /\ SequenceSample(4) => hist'.emit = "got"]_vars

\* C16, as the code has it: a round starts with the recognizer armed, so got
\* is emitted on the excursion b+25, and again on b+20 after the sample b+0
\* has re-armed it; the samples b and b+0 emit nothing.
C16_FiresOnBothExcursions ==
  [][/\ (SequenceSample(1) \/ SequenceSample(3)) => hist'.emit = ""
     /\ (SequenceSample(2) \/ SequenceSample(4))
          => hist'.emit = "got" /\ hist'.calls = hist.calls + 1]_vars

\* the four samples have been processed and two gots are counted
C16_Witness ==
  /\ State.mode = "running"
  /\ hist.seq.k = 4
  /\ hist.samples = 4
  /\ hist.emit = "got"
  /\ hist.calls = 2
  /\ State.got = 2 /\ State.pass = 0

\* the offset from the baseline of the sample just processed
LastDelta == hist.last.beta - State.tiltNeutralBeta

\* C17: within one round, two actions emitted by the tilt recognizer are at
\* least 700 ms apart: a sample emits nothing when the recognizer emitted
\* less than 700 ms before, even a qualifying excursion after a return to
\* neutral.
C17_Debounce ==
  [][(TiltSampleStep /\ hist.tiltAt # 0) =>
       /\ hist'.emit = ""
       /\ hist'.calls = hist.calls
       /\ State'.got = State.got /\ State'.pass = State.pass
       /\ State'.tiltLastActionAt = State.tiltLastActionAt]_vars

\* a forward excursion 500 ms after the one that fired, with a return to
\* neutral between them, has been processed by the armed recognizer and has
\* emitted nothing
C17_Witness ==
  /\ State.mode = "running"
  /\ hist.tiltAt = now - 500
  /\ hist.latch = "returned" /\ State.tiltArmed
  /\ hist.last.numeric
  /\ LastDelta >= TILT_forwardTriggerDelta * Scale
  /\ hist.samples = 4
  /\ hist.emit = "" /\ hist.calls = 1 /\ State.got = 1

\* C18: after the tilt recognizer emits an action it is disarmed and emits
\* nothing until a sample with |delta| <= 10 degrees has been processed:
\* between two tilt actions of a round there is a sample in the neutral
\* zone, and a device held tilted yields at most one action.
C18_ArmingLatch ==
  [][TiltSampleStep =>
       /\ hist.latch = "fired" => hist'.emit = "" /\ hist'.calls = hist.calls
       /\ hist'.emit # "" => ~State'.tiltArmed
       /\ (hist.latch = "fired" /\ State'.tiltArmed)
            => hist'.last.numeric /\
               Abs(hist'.last.beta - State'.tiltNeutralBeta)
                 <= TILT_neutralZoneAbs * Scale]_vars

\* the device is held tilted forward: 700 ms or more after the action, a
\* sample beyond the trigger has reached the disarmed recognizer and has
\* emitted nothing
C18_Witness ==
  /\ State.mode = "running"
  /\ hist.latch = "fired" /\ ~State.tiltArmed
  /\ hist.tiltAt = 0 /\ State.tiltLastActionAt = 0
  /\ hist.last.numeric /\ LastDelta >= TILT_forwardTriggerDelta * Scale
  /\ hist.samples = 4
  /\ hist.emit = "" /\ hist.calls = 1 /\ State.got = 1

\* the listener processes a sample (hist'.last) while armed and not
\* debounced
ArmedSample ==
  /\ TiltSampleStep
  /\ hist'.last.numeric
  /\ State.tiltArmed
  /\ now - State.tiltLastActionAt >= TILT_minIntervalMs

\* C19: a tilt sample processed while armed and not debounced emits got
\* when delta >= +18 and pass when delta <= -18, setting armed = false and
\* lastActionAt = now; for -18 < delta < 18 it emits nothing and leaves
\* armed and lastActionAt unchanged.  A sample never emits more than one
\* action.
C19_Trigger ==
  [][/\ ArmedSample =>
            LET delta == hist'.last.beta - State'.tiltNeutralBeta
            IN IF delta >= 18 * Scale
               THEN /\ hist'.emit = "got"
                    /\ ~State'.tiltArmed /\ State'.tiltLastActionAt = now
               ELSE IF delta <= (-18) * Scale
               THEN /\ hist'.emit = "pass"
                    /\ ~State'.tiltArmed /\ State'.tiltLastActionAt = now
               ELSE /\ hist'.emit = ""
                    /\ State'.tiltArmed
                    /\ State'.tiltLastActionAt = State.tiltLastActionAt
     /\ TiltSampleStep =>
            /\ hist'.calls <= hist.calls + 1
            /\ State'.shown <= State.shown + 1
            /\ hist'.calls = hist.calls + (IF hist'.emit = "" THEN 0 ELSE 1)]_vars

\* a sample exactly 18 degrees below the baseline has just been counted as
\* a pass
C19_Witness ==
  /\ State.mode = "running"
  /\ hist.last.numeric /\ LastDelta = (-18) * Scale
  /\ hist.emit = "pass" /\ hist.calls = 1
  /\ State.pass = 1 /\ State.got = 0 /\ State.shown = 1
  /\ ~State.tiltArmed /\ State.tiltLastActionAt = now

\* C20: an orientation event that has no numeric beta is dropped with no
\* state mutation: the tilt values, the round counters and the mode are
\* unchanged, no action is emitted, and the event never becomes the
\* baseline of the round.
C20_NonNumericDropped ==
  [][OrientationSample(NoSample) =>
       /\ State' = State
       /\ dom' = dom /\ storage' = storage
       /\ timeouts' = timeouts /\ intervals' = intervals
       /\ hist'.emit = "" /\ hist'.calls = hist.calls]_vars

\* the first event of a running round had no numeric beta: the round still
\* has no baseline
C20_Witness ==
  /\ State.mode = "running" /\ State.tiltListenerAttached
  /\ hist.samples = 1
  /\ hist.last = NoSample
  /\ \E iv \in intervals : iv.startedAt = now
  /\ ~State.tiltHasBaseline /\ State.tiltNeutralBeta = 0 /\ State.tiltArmed

ShuffledDecks ==
  LET phrases == parsePhrases(dom.phrasesInput)
  IN { fisherYatesShuffle(phrases, rnd) : rnd \in RandomDraws(Len(phrases)) }

FeedbackPending ==
  \E i \in DOMAIN timeouts : timeouts[i].kind = "advance" /\ ~timeouts[i].stale

\* C25: there is no input lock during the 420 ms feedback delay: an advance
\* that arrives while the callback of an earlier advance is pending, in mode
\* running with a current deck entry, is fully applied (shown and index +1,
\* got or pass by the action), and the pending callback neither undoes nor
\* duplicates it: it leaves the counters alone and moves index only from
\* the end of the deck back to 0.
C25_NoInputLock ==
  [][/\ \A a \in Actions :
          (Tap(a) /\ FeedbackPending /\ HasCurrent(State)) =>
             /\ State'.shown = State.shown + 1
             /\ State'.index = State.index + 1
             /\ State'.got = State.got + (IF a = "got" THEN 1 ELSE 0)
             /\ State'.pass = State.pass + (IF a = "pass" THEN 1 ELSE 0)
     /\ (TimeoutFires /\ Firing.kind = "advance" /\ ~Firing.stale) =>
          /\ State'.shown = State.shown
          /\ State'.got = State.got /\ State'.pass = State.pass
          /\ \/ State'.index = State.index
             \/ State.index = Len(State.deck) /\ State'.index = 0]_vars

\* C27: a delayed callback scheduled in one round (the 420 ms callback of
\* advance, the 250 ms callback of endRound) never affects a later round or
\* a later setup screen: fired after edit-list or after a new startRound,
\* it does not change mode, does not end the new round and does not reset
\* the new round's index.
C27_StaleCallbackInert ==
  [][(TimeoutFires /\ (Firing.stale \/ State.mode = "setup")) =>
       /\ State'.mode = State.mode
       /\ State'.index = State.index
       /\ State'.timerId = State.timerId
       /\ intervals' = intervals
       /\ \A i \in DOMAIN timeouts' : timeouts'[i].kind = "endRound"
             => \E j \in DOMAIN timeouts : timeouts[j] = timeouts'[i]]_vars

\* C23: in each round the timer fires its terminal signal exactly once: the
\* first tick that computes timeLeft = 0 calls endRound('Time is up') and
\* stops the interval in the same step, so no later tick of the round calls
\* endRound again.
C23_TimeIsUpOnce ==
  [][TimerFires =>
       IF State'.timeLeft = 0
       THEN /\ TimeIsUp \notin hist.ends
            /\ hist'.ends = hist.ends \cup {TimeIsUp}
            /\ Len(timeouts') = Len(timeouts) + 1
            /\ timeouts'[Len(timeouts')].kind = "endRound"
            /\ timeouts'[Len(timeouts')].reason = TimeIsUp
            /\ intervals' = {}
            /\ State'.timerId = null
       ELSE /\ hist'.ends = hist.ends
            /\ timeouts' = timeouts
            /\ intervals' # {}
            /\ State'.timerId = State.timerId]_vars

\* the timer of a round of TIMER_MIN seconds has run out and the results
\* are shown; the round was ended by that one signal
C23_Witness ==
  /\ State.mode = "finished"
  /\ State.timeLeft = 0
  /\ hist.ends = {TimeIsUp}
  /\ dom.results.reason = TimeIsUp
  /\ intervals = {} /\ timeouts = <<>>

\* C24: after every timer tick, timeLeft = max(0, timerSeconds -
\* floor(elapsed ms since startTimer / 1000)), however many ticks ran or
\* were missed; hence 0 <= timeLeft <= timerSeconds, and timeLeft never
\* increases during a round.
C24_TimeLeftFromClock ==
  /\ [](State.mode = "running" =>
          0 <= State.timeLeft /\ State.timeLeft <= State.timerSeconds)
  /\ [][TimerFires =>
          \E iv \in intervals :
             /\ iv.due <= now
             /\ State'.timeLeft =
                  Max(0, State.timerSeconds - ((now - iv.startedAt) \div 1000))]_vars
  /\ [][State'.timeLeft > State.timeLeft => RoundStarts]_vars

\* five of the first six ticks of a round were dropped, so the one that ran
\* came 1000 ms or more after the start: it shows one second less
C24_Witness ==
  /\ State.mode = "running"
  /\ hist.missed = 5
  /\ \E iv \in intervals : now - iv.startedAt = 1500 /\ iv.due = now + TIMER_POLL
  /\ State.timeLeft = State.timerSeconds - 1

\* C30: the first valid orientation sample of a round sets neutralBeta to
\* its beta, marks the baseline present and emits no action whatever its
\* beta; a later sample with |beta - neutralBeta| > 14 degrees never
\* changes neutralBeta.
C30_Baseline ==
  [][(TiltSampleStep /\ hist'.last.numeric) =>
       IF hist.seq.k = 0
       THEN /\ ~State.tiltHasBaseline
            /\ State'.tiltHasBaseline
            /\ State'.tiltNeutralBeta = hist'.last.beta
            /\ hist'.emit = "" /\ hist'.calls = hist.calls
            /\ State'.got = State.got /\ State'.pass = State.pass
       ELSE /\ State.tiltHasBaseline /\ State'.tiltHasBaseline
            /\ Abs(hist'.last.beta - State.tiltNeutralBeta) > 14 * Scale
                 => State'.tiltNeutralBeta = State.tiltNeutralBeta]_vars

\* the first sample of the round, at 25 degrees, became the baseline; the
\* second, at 0 degrees, was counted as a pass and left the baseline alone
C30_Witness ==
  /\ State.mode = "running"
  /\ hist.samples = 2
  /\ State.tiltHasBaseline /\ State.tiltNeutralBeta = 25 * Scale
  /\ hist.last.numeric /\ hist.last.beta = 0
  /\ hist.emit = "pass" /\ hist.calls = 1 /\ State.pass = 1

\* the platform requires a motion-permission grant and none has been given
GrantOutstanding == dom.needsMotionPermission /\ ~State.tiltPermissionGranted

RefusalStep ==
  /\ dom'.permRequests = dom.permRequests - 1
  /\ ~State'.tiltPermissionGranted

\* C22: when the motion-permission request is refused or throws, tilt is
\* switched off, the listener is not attached, the round keeps its mode, and
\* in a running round the tilt status reports 'Off'.
C22_RefusalReportsOff ==
  [][RefusalStep =>
       /\ ~State'.tiltEnabled
       /\ ~State'.tiltListenerAttached
       /\ State'.mode = State.mode
       /\ (State.mode = "running" =>
             dom'.tiltStatus = <<"Tilt: Off", "Off">>)]_vars

\* C28: every round that enters mode running eventually leaves it, when the
\* timer callbacks and the scheduled callbacks that are due run and time
\* passes, whatever the player and the platform do meanwhile.
C28_RoundEnds == (State.mode = "running") ~> (State.mode # "running")

====
